---- MODULE Spec2Model ----
(***************************************************************************)
(* Model of homework.py: the Training hierarchy (Running, SportsWalking,   *)
(* Swimming), InfoMessage, and the read_package dispatcher.                *)
(*                                                                         *)
(* Numbers: the sensor data are Python ints; every formula result is a     *)
(* Python float.  Floats are modelled by exact rationals <<n, d>> in       *)
(* lowest terms with d > 0, so a result of the model is the real number    *)
(* the float approximates (the float may differ from it in the last        *)
(* binary digits, e.g. 157.50000000000003 for 157.5).                      *)
(*                                                                         *)
(* An optional value (None or a value, nothing or a return value) is a     *)
(* sequence of length 0 or 1.                                              *)
(***************************************************************************)
EXTENDS Integers, Sequences, FiniteSets, TLC

(***************************************************************************)
(* Bounds of the model and the inputs that are enumerated.                 *)
(***************************************************************************)
\* longest data list handed to read_package
MaxArgs == 6

\* packages the caller goes through after the first one
MaxPackages == 2

\* type codes tried: the three known ones and two unknown ones
WorkoutTypeCodes == {"SWM", "RUN", "WLK", "XYZ", "swm"}

\* values tried at each position of a data list
ArgValues(p) ==
    CASE p = 1 -> {720, 9000, 15000}       \* action
      [] p = 2 -> {-1, 0, 1, 2}            \* duration
      [] p = 3 -> {75, 80}                 \* weight
      [] p = 4 -> {0, 1, 25, 180}          \* height or length_pool
      [] p = 5 -> {0, 40}                  \* count_pool
      [] OTHER -> {7}                      \* an argument in excess

RECURSIVE DataLists(_)
\* all data lists of length n
DataLists(n) ==
    IF n = 0 THEN {<<>>}
    ELSE {Append(s, v) : s \in DataLists(n - 1), v \in ArgValues(n)}

(***************************************************************************)
(* Python arithmetic on floats, as exact rationals.                        *)
(***************************************************************************)
Abs(i) == IF i < 0 THEN -i ELSE i

RECURSIVE GCD(_, _)
GCD(a, b) == IF b = 0 THEN a ELSE GCD(b, a % b)

\* the rational n/d (d # 0) in lowest terms with a positive denominator
Norm(n, d) ==
    LET g == GCD(Abs(n), Abs(d))
        s == IF d < 0 THEN -1 ELSE 1
    IN  <<s * (n \div g), s * (d \div g)>>

FromInt(i) == <<i, 1>>

\* a decimal literal such as 0.65 == Dec(65, 100)
Dec(n, d) == Norm(n, d)

RAdd(x, y) == Norm(x[1] * y[2] + y[1] * x[2], x[2] * y[2])
RSub(x, y) == Norm(x[1] * y[2] - y[1] * x[2], x[2] * y[2])
RMul(x, y) ==
    \* cross-reduce first so that the products stay small
    LET a == Norm(x[1], y[2])
        b == Norm(y[1], x[2])
    IN  Norm(a[1] * b[1], a[2] * b[2])
\* x / y, y # 0
RDiv(x, y) == RMul(x, Norm(y[2], y[1]))
\* x // y, y # 0: the floor of the quotient, as a float
RFloorDiv(x, y) ==
    LET q == RDiv(x, y) IN FromInt(q[1] \div q[2])
\* x ** 2
RSquare(x) == RMul(x, x)

(***************************************************************************)
(* Outcomes of a call: a return value or a raised exception.               *)
(***************************************************************************)
Return(v) == [raised |-> "", value |-> <<v>>]
ReturnNone == [raised |-> "", value |-> <<>>]
Raise(e) == [raised |-> e, value |-> <<>>]

(***************************************************************************)
(* Class attributes.                                                       *)
(***************************************************************************)
M_IN_KM == 1000
MINUTES_IN_HOUR == 60
COEFF_CALORIE_FOR_RUN_1 == 18
COEFF_CALORIE_FOR_RUN_2 == 20
COEFF_CALORIE_FOR_WALK_1 == Dec(35, 1000)
COEFF_CALORIE_FOR_WALK_2 == Dec(29, 1000)
COEFF_CALORIE_FOR_SWIM_1 == Dec(11, 10)
COEFF_CALORIE_FOR_SWIM_2 == 2

\* variant: Swimming does not override LEN_STEP
LEN_STEP_NoOverride(cls) == Dec(65, 100)

\* LEN_STEP as the attribute lookup finds it: Swimming overrides Training's
LEN_STEP(cls) ==
    IF cls = "Swimming" THEN Dec(138, 100) ELSE Dec(65, 100)

\* variant: Swimming.__init__ takes count_pool before length_pool
InitParams_PoolSwapped(cls) ==
    CASE cls = "SportsWalking" -> <<"action", "duration", "weight", "height">>
      [] cls = "Swimming" -> <<"action", "duration", "weight",
                               "count_pool", "length_pool">>
      [] OTHER -> <<"action", "duration", "weight">>

\* the parameters of cls.__init__ after self, in order
InitParams(cls) ==
    CASE cls = "SportsWalking" -> <<"action", "duration", "weight", "height">>
      [] cls = "Swimming" -> <<"action", "duration", "weight",
                               "length_pool", "count_pool">>
      [] OTHER -> <<"action", "duration", "weight">>

\* cls(*args): binds args to the parameters by position; each __init__
\* stores every parameter in the attribute of the same name
Construct(cls, args) ==
    LET params == InitParams(cls) IN
    IF Len(args) # Len(params) THEN Raise("TypeError")
    ELSE Return([cls |-> cls,
                 attrs |-> [name \in {params[i] : i \in 1..Len(params)} |->
                     args[CHOOSE i \in 1..Len(params) : params[i] = name]]])

(***************************************************************************)
(* The formula methods.  self is an instance [cls, attrs].                 *)
(***************************************************************************)
get_distance(self) ==
    Return(RDiv(RMul(FromInt(self.attrs.action), LEN_STEP(self.cls)),
                FromInt(M_IN_KM)))

Training_get_mean_speed(self) ==
    IF self.attrs.duration = 0 THEN Raise("ZeroDivisionError")
    ELSE Return(RDiv(RDiv(RMul(FromInt(self.attrs.action),
                               LEN_STEP(self.cls)),
                          FromInt(M_IN_KM)),
                     FromInt(self.attrs.duration)))

Swimming_get_mean_speed(self) ==
    IF self.attrs.duration = 0 THEN Raise("ZeroDivisionError")
    ELSE Return(RDiv(RDiv(FromInt(self.attrs.length_pool
                                  * self.attrs.count_pool),
                          FromInt(M_IN_KM)),
                     FromInt(self.attrs.duration)))

\* variant: Swimming does not override get_mean_speed
get_mean_speed_NoOverride(self) == Training_get_mean_speed(self)

\* method resolution: Swimming overrides get_mean_speed
get_mean_speed(self) ==
    IF self.cls = "Swimming" THEN Swimming_get_mean_speed(self)
    ELSE Training_get_mean_speed(self)

\* variant: the second coefficient is added instead of subtracted
Running_get_spent_calories_Plus(self) ==
    LET speed == get_mean_speed(self) IN
    IF speed.raised # "" THEN speed
    ELSE Return(RMul(RDiv(RMul(RAdd(RMul(FromInt(COEFF_CALORIE_FOR_RUN_1),
                                         speed.value[1]),
                                    FromInt(COEFF_CALORIE_FOR_RUN_2)),
                               FromInt(self.attrs.weight)),
                          FromInt(M_IN_KM)),
                     FromInt(self.attrs.duration * MINUTES_IN_HOUR)))

Running_get_spent_calories(self) ==
    LET speed == get_mean_speed(self) IN
    IF speed.raised # "" THEN speed
    ELSE Return(RMul(RDiv(RMul(RSub(RMul(FromInt(COEFF_CALORIE_FOR_RUN_1),
                                         speed.value[1]),
                                    FromInt(COEFF_CALORIE_FOR_RUN_2)),
                               FromInt(self.attrs.weight)),
                          FromInt(M_IN_KM)),
                     FromInt(self.attrs.duration * MINUTES_IN_HOUR)))

\* variant: true division (/) where the code has floor division (//)
SportsWalking_get_spent_calories_TrueDiv(self) ==
    LET speed == get_mean_speed(self) IN
    IF speed.raised # "" THEN speed
    ELSE IF self.attrs.height = 0 THEN Raise("ZeroDivisionError")
    ELSE Return(RMul(
            RAdd(RMul(COEFF_CALORIE_FOR_WALK_1, FromInt(self.attrs.weight)),
                 RMul(RMul(RDiv(RSquare(speed.value[1]),
                                FromInt(self.attrs.height)),
                           COEFF_CALORIE_FOR_WALK_2),
                      FromInt(self.attrs.weight))),
            FromInt(self.attrs.duration * MINUTES_IN_HOUR)))

SportsWalking_get_spent_calories(self) ==
    LET speed == get_mean_speed(self) IN
    IF speed.raised # "" THEN speed
    ELSE IF self.attrs.height = 0 THEN Raise("ZeroDivisionError")
    ELSE Return(RMul(
            RAdd(RMul(COEFF_CALORIE_FOR_WALK_1, FromInt(self.attrs.weight)),
                 RMul(RMul(RFloorDiv(RSquare(speed.value[1]),
                                     FromInt(self.attrs.height)),
                           COEFF_CALORIE_FOR_WALK_2),
                      FromInt(self.attrs.weight))),
            FromInt(self.attrs.duration * MINUTES_IN_HOUR)))

Swimming_get_spent_calories(self) ==
    LET speed == get_mean_speed(self) IN
    IF speed.raised # "" THEN speed
    ELSE Return(RMul(RMul(RAdd(speed.value[1], COEFF_CALORIE_FOR_SWIM_1),
                          FromInt(COEFF_CALORIE_FOR_SWIM_2)),
                     FromInt(self.attrs.weight)))

\* variant: the base method has an empty body and returns None
get_spent_calories_BasePasses(self) ==
    CASE self.cls = "Running" -> Running_get_spent_calories(self)
      [] self.cls = "SportsWalking" -> SportsWalking_get_spent_calories(self)
      [] self.cls = "Swimming" -> Swimming_get_spent_calories(self)
      [] OTHER -> ReturnNone

\* method resolution: every variant overrides, the base raises
get_spent_calories(self) ==
    CASE self.cls = "Running" -> Running_get_spent_calories(self)
      [] self.cls = "SportsWalking" -> SportsWalking_get_spent_calories(self)
      [] self.cls = "Swimming" -> Swimming_get_spent_calories(self)
      [] OTHER -> Raise("NotImplementedError")

\* the dataclass InfoMessage
InfoMessage(training_type, duration, distance, speed, calories) ==
    [training_type |-> training_type, duration |-> duration,
     distance |-> distance, speed |-> speed, calories |-> calories]

\* variant: the speed is computed by Training.get_mean_speed(self), without
\* method resolution
show_training_info_StaticSpeed(self) ==
    LET distance == get_distance(self)
        speed == Training_get_mean_speed(self)
        calories == get_spent_calories(self)
    IN  IF speed.raised # "" THEN speed
        ELSE IF calories.raised # "" THEN calories
        ELSE Return(InfoMessage(self.cls, self.attrs.duration,
                                distance.value[1], speed.value[1],
                                calories.value[1]))

\* the arguments of InfoMessage(...) are evaluated left to right and the
\* first exception propagates
show_training_info(self) ==
    LET distance == get_distance(self)
        speed == get_mean_speed(self)
        calories == get_spent_calories(self)
    IN  IF speed.raised # "" THEN speed
        ELSE IF calories.raised # "" THEN calories
        ELSE Return(InfoMessage(self.cls, self.attrs.duration,
                                distance.value[1], speed.value[1],
                                calories.value[1]))

(***************************************************************************)
(* The dispatcher.                                                         *)
(***************************************************************************)
workout_types ==
    [SWM |-> "Swimming", RUN |-> "Running", WLK |-> "SportsWalking"]

\* variant: the table is indexed without the membership test
read_package_KeyError(workout_type, data) ==
    IF workout_type \in DOMAIN workout_types
    THEN Construct(workout_types[workout_type], data)
    ELSE Raise("KeyError")

\* variant: the except clause catches the constructor's TypeError too
read_package_CatchesTypeError(workout_type, data) ==
    IF workout_type \in DOMAIN workout_types
    THEN LET outcome == Construct(workout_types[workout_type], data)
         IN  IF outcome.raised = "TypeError" THEN ReturnNone ELSE outcome
    ELSE ReturnNone

\* a TypeError of the constructor is not a ValueError: it propagates
read_package(workout_type, data) ==
    IF workout_type \in DOMAIN workout_types
    THEN Construct(workout_types[workout_type], data)
    ELSE ReturnNone

(***************************************************************************)
(* State.                                                                  *)
(***************************************************************************)
VARIABLES
    package,    \* the (workout_type, data) being processed, if any
    training,   \* what the caller holds: <<>> (nothing or None) or <<instance>>
    last,       \* the last call: its name and its outcome
    returned,   \* per method, the outcome of its latest call on training
    done        \* how many packages the caller has finished with

vars == <<package, training, last, returned, done>>

Methods == {"get_distance", "get_mean_speed", "get_spent_calories",
            "show_training_info"}

NoCall == [op |-> "", raised |-> "", value |-> <<>>]

Called(op, outcome) ==
    [op |-> op, raised |-> outcome.raised, value |-> outcome.value]

Init ==
    /\ package = <<>>
    /\ training = <<>>
    /\ last = NoCall
    /\ returned = [m \in Methods |-> <<>>]
    /\ done = 0

\* training = read_package(workout_type, data)
ReadPackage ==
    /\ last = NoCall
    /\ \E workout_type \in WorkoutTypeCodes, n \in 0..MaxArgs :
         \E data \in DataLists(n) :
           LET outcome == read_package(workout_type, data) IN
           /\ package' = <<[workout_type |-> workout_type, data |-> data]>>
           /\ training' = outcome.value
           /\ last' = Called("read_package", outcome)
    /\ UNCHANGED <<returned, done>>

\* training = Training(action, duration, weight): the base class itself
NewTraining ==
    /\ last = NoCall
    /\ \E data \in DataLists(3) :
           LET outcome == Construct("Training", data) IN
           /\ training' = outcome.value
           /\ last' = Called("Training", outcome)
    /\ UNCHANGED <<package, returned, done>>

\* a call of one of the methods on the instance the caller holds
Call(m, outcome) ==
    /\ last' = Called(m, outcome)
    /\ returned' = [returned EXCEPT ![m] = <<outcome>>]
    /\ UNCHANGED <<package, training, done>>

GetDistance == training # <<>> /\ Call("get_distance", get_distance(training[1]))

GetMeanSpeed ==
    training # <<>> /\ Call("get_mean_speed", get_mean_speed(training[1]))

GetSpentCalories ==
    training # <<>>
    /\ Call("get_spent_calories", get_spent_calories(training[1]))

ShowTrainingInfo ==
    training # <<>>
    /\ Call("show_training_info", show_training_info(training[1]))

\* the caller drops the instance (or the failure) and takes the next package
Discard ==
    /\ last # NoCall
    /\ done < MaxPackages
    /\ done' = done + 1
    /\ package' = <<>>
    /\ training' = <<>>
    /\ last' = NoCall
    /\ returned' = [m \in Methods |-> <<>>]

Next ==
    \/ ReadPackage
    \/ NewTraining
    \/ GetDistance
    \/ GetMeanSpeed
    \/ GetSpentCalories
    \/ ShowTrainingInfo
    \/ Discard

Spec == Init /\ [][Next]_vars

TypeOK ==
    /\ Len(package) <= 1
    /\ Len(training) <= 1
    /\ last.op \in Methods \cup {"", "read_package", "Training"}
    /\ done \in 0..MaxPackages

(***************************************************************************)
(* Properties.                                                             *)
(***************************************************************************)
\* the instance the caller holds, and the package it was built from
self == training[1]
pkg == package[1]

\* |x - y| <= 0.001
ApproxEq(x, y) == LET diff == RSub(x, y) IN Abs(diff[1]) * 1000 <= diff[2]

\* C1: read_package with a type code other than 'SWM', 'RUN', 'WLK', whatever
\* the argument list, raises nothing, returns None and builds no workout.
C1_UnknownTypeReturnsNone ==
    (package # <<>> /\ pkg.workout_type \notin {"SWM", "RUN", "WLK"})
    => /\ last = [op |-> "read_package", raised |-> "", value |-> <<>>]
       /\ training = <<>>

C1_Witness ==
    /\ package # <<>>
    /\ pkg.workout_type = "XYZ"
    /\ Len(pkg.data) = 5
    /\ last.op = "read_package"

\* C2: read_package with a known type code and an argument list whose
\* length is not the arity of that type (SWM 5, RUN 3, WLK 4) raises the
\* constructor's TypeError to the caller: no workout and no None is returned.
C2_ArityMismatchRaises ==
    (/\ package # <<>>
     /\ \/ pkg.workout_type = "SWM" /\ Len(pkg.data) # 5
        \/ pkg.workout_type = "RUN" /\ Len(pkg.data) # 3
        \/ pkg.workout_type = "WLK" /\ Len(pkg.data) # 4)
    => /\ last = [op |-> "read_package", raised |-> "TypeError",
                  value |-> <<>>]
       /\ training = <<>>

C2_Witness ==
    /\ package # <<>>
    /\ pkg.workout_type = "RUN"
    /\ Len(pkg.data) = 5
    /\ last.op = "read_package"
    /\ last.raised = "TypeError"

\* C3: a package whose duration is zero or negative yields no workout.
C3_NonPositiveDurationRejected ==
    (package # <<>> /\ Len(pkg.data) >= 2 /\ pkg.data[2] <= 0)
    => training = <<>>

\* C4 as stated: for RUN [15000, 1, 75] the calories are about 730.125.
C4_Original ==
    (/\ package = <<[workout_type |-> "RUN", data |-> <<15000, 1, 75>>]>>
     /\ last.op = "get_spent_calories")
    => /\ last.raised = ""
       /\ ApproxEq(last.value[1], Dec(730125, 1000))

\* C4 amended: for RUN [15000, 1, 75] the distance is 9.75 km, the mean
\* speed 9.75 km/h and the calories, (18 x mean_speed - 20) x weight / 1000
\* x (duration x 60), are about 699.75.
C4_RunScenario ==
    package = <<[workout_type |-> "RUN", data |-> <<15000, 1, 75>>]>>
    => /\ last.op = "get_distance"
          => last.raised = "" /\ last.value = <<Dec(975, 100)>>
       /\ last.op = "get_mean_speed"
          => last.raised = "" /\ last.value = <<Dec(975, 100)>>
       /\ last.op = "get_spent_calories"
          => /\ last.raised = ""
             /\ ApproxEq(last.value[1], Dec(69975, 100))
             /\ last.value[1] = Norm((18 * 975 - 20 * 100) * 75 * (1 * 60),
                                     100 * 1000)

C4_Witness ==
    /\ package = <<[workout_type |-> "RUN", data |-> <<15000, 1, 75>>]>>
    /\ last.op = "get_spent_calories"
    /\ returned["get_distance"] # <<>>
    /\ returned["get_mean_speed"] # <<>>

\* C5: get_spent_calories on a base Training raises NotImplementedError and
\* returns nothing; show_training_info on a base Training raises too and
\* produces no InfoMessage.
C5_BaseCaloriesUnsupported ==
    (training # <<>> /\ self.cls = "Training")
    => /\ last.op = "get_spent_calories"
          => last.raised = "NotImplementedError" /\ last.value = <<>>
       /\ last.op = "show_training_info"
          => last.raised # "" /\ last.value = <<>>
       /\ returned["get_spent_calories"] \in
              {<<>>, <<Raise("NotImplementedError")>>}

C5_Witness ==
    /\ training # <<>>
    /\ self.cls = "Training"
    /\ self.attrs.duration > 0
    /\ last.op = "show_training_info"
    /\ returned["get_spent_calories"] # <<>>

\* C6: a workout built by read_package is of the variant the type code
\* names, with the arguments bound by position: SWM -> Swimming(action,
\* duration, weight, length_pool, count_pool), RUN -> Running(action,
\* duration, weight), WLK -> SportsWalking(action, duration, weight, height).
C6_PositionalBinding ==
    (package # <<>> /\ training # <<>>)
    => LET d == pkg.data IN
       CASE pkg.workout_type = "SWM" ->
              self = [cls |-> "Swimming",
                      attrs |-> [action |-> d[1], duration |-> d[2],
                                 weight |-> d[3], length_pool |-> d[4],
                                 count_pool |-> d[5]]]
         [] pkg.workout_type = "RUN" ->
              self = [cls |-> "Running",
                      attrs |-> [action |-> d[1], duration |-> d[2],
                                 weight |-> d[3]]]
         [] pkg.workout_type = "WLK" ->
              self = [cls |-> "SportsWalking",
                      attrs |-> [action |-> d[1], duration |-> d[2],
                                 weight |-> d[3], height |-> d[4]]]
         [] OTHER -> FALSE

C6_Witness ==
    /\ package = <<[workout_type |-> "SWM", data |-> <<720, 1, 80, 25, 40>>]>>
    /\ training # <<>>
    /\ last.op = "read_package"

\* C7: with duration > 0, get_distance returns action x step_length / 1000,
\* step_length being 0.65 for Running and SportsWalking and 1.38 for
\* Swimming; a Swimming's distance is the same for every length_pool,
\* count_pool and duration.
C7_Distance ==
    (/\ training # <<>>
     /\ last.op = "get_distance"
     /\ self.cls \in {"Running", "SportsWalking", "Swimming"}
     /\ self.attrs.duration > 0)
    => /\ last.raised = ""
       /\ last.value = <<Norm(self.attrs.action
                              * (IF self.cls = "Swimming" THEN 138 ELSE 65),
                              100 * 1000)>>
       /\ self.cls = "Swimming"
          => \A lp \in ArgValues(4), cp \in ArgValues(5), du \in ArgValues(2) :
               get_distance([self EXCEPT !.attrs.length_pool = lp,
                                         !.attrs.count_pool = cp,
                                         !.attrs.duration = du]).value
               = last.value

C7_Witness ==
    /\ training # <<>>
    /\ last.op = "get_distance"
    /\ self.cls = "Swimming"
    /\ self.attrs.duration > 0
    /\ self.attrs.action = 720
    /\ last.value = <<Dec(9936, 10000)>>

\* C8: with duration > 0, a Swimming's get_mean_speed returns length_pool x
\* count_pool / 1000 / duration and its get_spent_calories returns
\* (mean_speed + 1.1) x 2 x weight; both are the same for every action.
C8_SwimmingIgnoresAction ==
    (/\ training # <<>>
     /\ self.cls = "Swimming"
     /\ self.attrs.duration > 0)
    => LET a == self.attrs IN
       /\ last.op = "get_mean_speed"
          => /\ last.raised = ""
             /\ last.value = <<Norm(a.length_pool * a.count_pool,
                                    1000 * a.duration)>>
             /\ \A action \in ArgValues(1) :
                  get_mean_speed([self EXCEPT !.attrs.action = action]).value
                  = last.value
       /\ last.op = "get_spent_calories"
          => /\ last.raised = ""
             /\ last.value =
                  <<Norm((a.length_pool * a.count_pool * 10
                          + 11 * 1000 * a.duration) * 2 * a.weight,
                         10 * 1000 * a.duration)>>
             /\ \A action \in ArgValues(1) :
                  get_spent_calories(
                      [self EXCEPT !.attrs.action = action]).value
                  = last.value

C8_Witness ==
    /\ package = <<[workout_type |-> "SWM", data |-> <<720, 1, 80, 25, 40>>]>>
    /\ last.op = "get_spent_calories"
    /\ last.value = <<FromInt(336)>>
    /\ returned["get_mean_speed"] = <<Return(FromInt(1))>>

\* C9: with duration > 0 and height > 0, a SportsWalking's
\* get_spent_calories returns (0.035 x weight + k x 0.029 x weight) x
\* (duration x 60), k being the floor of mean_speed^2 / height and
\* mean_speed = action x 0.65 / 1000 / duration; when mean_speed^2 < height
\* that is 0.035 x weight x duration x 60, whatever the action, and it is
\* 157.5 for WLK [9000, 1, 75, 180].
C9_WalkingCalories ==
    (/\ training # <<>>
     /\ last.op = "get_spent_calories"
     /\ self.cls = "SportsWalking"
     /\ self.attrs.duration > 0
     /\ self.attrs.height > 0)
    => LET a == self.attrs
           speed == Norm(a.action * 65, 100 * 1000 * a.duration)
           sqn == speed[1] * speed[1]
           sqd == speed[2] * speed[2]
           \* the k with k <= sqn / sqd / height < k + 1
           k == CHOOSE i \in 0..(sqn \div sqd) :
                    /\ i * a.height * sqd <= sqn
                    /\ sqn < (i + 1) * a.height * sqd
       IN  /\ last.raised = ""
           /\ last.value = <<Norm((35 + 29 * k) * a.weight * 60 * a.duration,
                                  1000)>>
           /\ sqn < a.height * sqd
              => last.value = <<Norm(21 * a.weight * a.duration, 10)>>
           /\ self = [cls |-> "SportsWalking",
                      attrs |-> [action |-> 9000, duration |-> 1,
                                 weight |-> 75, height |-> 180]]
              => last.value = <<Dec(1575, 10)>>

\* a walk in which the floor term is not zero
C9_Witness ==
    /\ package = <<[workout_type |-> "WLK", data |-> <<9000, 1, 75, 1>>]>>
    /\ last.op = "get_spent_calories"
    /\ last.raised = ""
    /\ last.value # <<Dec(1575, 10)>>

\* C10: the four methods leave the instance as it is, a method called again
\* on the same instance has the outcome it had before, and an InfoMessage
\* carries the class name, the duration and the values get_distance,
\* get_mean_speed and get_spent_calories return for the instance.
C10_MethodsAreQueries ==
    /\ [][(training # <<>> /\ last'.op \in Methods)
          => /\ training' = training
             /\ \A m \in Methods :
                  (returned[m] # <<>>) => (returned'[m] = returned[m])]_vars
    /\ []((/\ returned["show_training_info"] # <<>>
            /\ returned["show_training_info"][1].raised = "")
           =>
            LET msg == returned["show_training_info"][1].value[1] IN
            /\ msg.training_type = self.cls
            /\ msg.duration = self.attrs.duration
            /\ returned["get_distance"] \in {<<>>, <<Return(msg.distance)>>}
            /\ returned["get_mean_speed"] \in {<<>>, <<Return(msg.speed)>>}
            /\ returned["get_spent_calories"]
                   \in {<<>>, <<Return(msg.calories)>>})

C10_Witness ==
    /\ training # <<>>
    /\ self.cls = "Swimming"
    /\ self.attrs.duration > 0
    /\ self.attrs.action = 720
    /\ last.op = "get_distance"
    /\ \A m \in Methods : returned[m] # <<>> /\ returned[m][1].raised = ""
====
